---- MODULE Spec2Model ----
(***************************************************************************)
(* Model of animebot.py: one run of the bot is run_once(), which fetches   *)
(* the listing page (fetch_anime_news), fetches the details of the         *)
(* candidates that are not in the ledger with a pool of three workers      *)
(* (fetch_selected_articles), and then delivers the candidates one by one  *)
(* (send_to_telegram), writing the ledger file posted_titles.json after    *)
(* each accepted message (save_posted_title).                              *)
(***************************************************************************)
EXTENDS Integers, Sequences, FiniteSets, TLC

\* ------------------------------------------------------------------------
\* Bounds of the model
\* ------------------------------------------------------------------------
MaxRuns == 2
MaxArticles == 2
MaxPool == 4
MaxTransient == 1
MaxYear == 2025

\* ------------------------------------------------------------------------
\* Values
\* ------------------------------------------------------------------------
NoneVal == "None"
Titles == {"t1", "t2"}
PoolTitles == <<"p1", "p2", "p3", "p4", "p5", "p6">>
PoolUrls == <<"q1", "q2", "q3", "q4", "q5", "q6">>
PoolThumbs == <<"i1", "i2", "i3", "i4", "i5", "i6">>
PLACEHOLDER == "No summary available."
FETCHING == "Fetching summary..."

\* ------------------------------------------------------------------------
\* datetime: a naive local time, to the minute (the listing gives no seconds)
\* ------------------------------------------------------------------------
datetime(y, mo, d, h, mi) == [year |-> y, mon |-> mo, day |-> d, hour |-> h, minute |-> mi]

NoneDate == datetime(0, 0, 0, 0, 0)

is_leap(y) == (y % 4 = 0 /\ y % 100 # 0) \/ y % 400 = 0

days_in_month(y, mo) ==
    IF mo = 2 THEN (IF is_leap(y) THEN 29 ELSE 28)
    ELSE IF mo \in {4, 6, 9, 11} THEN 30 ELSE 31

\* the order of datetime values, as one integer
dt_key(d) == (((d.year * 13 + d.mon) * 32 + d.day) * 24 + d.hour) * 60 + d.minute

\* datetime(y, ...) exists: strptime and datetime.replace raise ValueError otherwise
valid_date(y, mo, d, h, mi) ==
    /\ mo \in 1..12
    /\ d >= 1 /\ d <= days_in_month(y, mo)
    /\ h \in 0..23
    /\ mi \in 0..59

\* date_obj > datetime.now()  (line 121); now has seconds, date_obj has none,
\* so the comparison to the minute decides it unless the minutes are equal,
\* and then date_obj is not later
is_future_ge(date_obj, now_) == dt_key(date_obj) >= dt_key(now_)

is_future(date_obj, now_) == dt_key(date_obj) > dt_key(now_)

\* a date text "Mon DD, HH:MM" is [mon, day, hour, minute]; the empty or
\* malformed text has mon = 0
normalize_date(date_text, now_) ==
    LET current_year == now_.year
    IN  IF ~valid_date(current_year, date_text.mon, date_text.day,
                       date_text.hour, date_text.minute)
        THEN NoneDate
        ELSE LET date_obj == datetime(current_year, date_text.mon, date_text.day,
                                      date_text.hour, date_text.minute)
             IN  IF is_future(date_obj, now_)
                 THEN IF valid_date(current_year - 1, date_text.mon, date_text.day,
                                    date_text.hour, date_text.minute)
                      THEN [date_obj EXCEPT !.year = current_year - 1]
                      ELSE NoneDate
                 ELSE date_obj

midnight(d) == [d EXCEPT !.hour = 0, !.minute = 0]

\* ------------------------------------------------------------------------
\* The ledger file posted_titles.json: absent, unreadable, or a list of titles
\* ------------------------------------------------------------------------
FileAbsent == [state |-> "absent", titles |-> {}]
FileCorrupt == [state |-> "corrupt", titles |-> {}]
FileOf(s) == [state |-> "json", titles |-> s]

\* What file I/O does during one step of run_once: nothing goes wrong, or
\* the read of load_posted_titles fails (line 284 or line 64), or the open or
\* the json.dump of save_posted_title fails
IOFaults == {"ok", "check_read_fails", "save_read_fails", "open_fails", "dump_fails"}
NoFault == "ok"

\* the titles the file holds
stored_titles(f) == IF f.state = "json" THEN f.titles ELSE {}

\* a missing file gives set(); an unreadable one, or a read that raises,
\* gives set() too (lines 58-60)
load_posted_titles(f, read_ok) == IF read_ok THEN stored_titles(f) ELSE {}

save_overwrites(f, title, io) == FileOf({title})

\* the failure of open leaves the file as it was, the failure of json.dump
\* leaves the truncated file; both are logged only (lines 68-69)
save_posted_title(f, title, io) ==
    IF io = "open_fails" THEN f
    ELSE IF io = "dump_fails" THEN FileCorrupt
    ELSE FileOf(load_posted_titles(f, io # "save_read_fails") \cup {title})

\* ------------------------------------------------------------------------
\* The listing page: a sequence of article blocks
\*   title     text of the h3, NoneVal when the block has no h3
\*   date_text text of the time tag, mon = 0 when missing or malformed
\*   href      link of the h3, NoneVal when the h3 has no anchor
\*   thumb     data-src of the thumbnail div, NoneVal when there is none
\* ------------------------------------------------------------------------
debug_on == TRUE

DEBUG_MODE == FALSE

RunNow == datetime(2025, 3, 17, 12, 0)
T_EARLY == [mon |-> 3, day |-> 17, hour |-> 6, minute |-> 11]
T_YESTERDAY == [mon |-> 3, day |-> 16, hour |-> 6, minute |-> 11]
T_MISSING == [mon |-> 0, day |-> 0, hour |-> 0, minute |-> 0]
T_LATE == [mon |-> 3, day |-> 17, hour |-> 9, minute |-> 30]
T_EVENING == [mon |-> 3, day |-> 17, hour |-> 23, minute |-> 0]

Block(t, d, u, th) == [title |-> t, date_text |-> d, href |-> u, thumb |-> th]

\* blocks of the listing pages of Spec: an article with a thumbnail, one
\* without, and the three kinds of block that fetch_anime_news skips
Articles ==
    {Block("t1", T_EARLY, "u1", "img1"),
     Block("t2", T_EARLY, "u2", NoneVal),
     Block(NoneVal, T_EARLY, NoneVal, NoneVal),
     Block("t1", T_MISSING, "u1", NoneVal),
     Block("t2", T_YESTERDAY, "u2", NoneVal)}

RECURSIVE SeqsUpTo(_, _)
SeqsUpTo(S, n) ==
    IF n = 0 THEN {<<>>}
    ELSE LET shorter == SeqsUpTo(S, n - 1)
         IN  shorter \cup {Append(p, a) : p \in shorter, a \in S}

Pages == SeqsUpTo(Articles, MaxArticles)

\* blocks of the listing pages of SpecListing: articles of today of two
\* times, and the blocks that fetch_anime_news skips: without h3, without
\* time tag, of yesterday, and of a time of the day that is later than now
ListingArticles ==
    {Block("t1", T_LATE, "u1", "img1"),
     Block("t2", T_EARLY, "u2", NoneVal),
     Block("t1", T_EARLY, "u1", "img1"),
     Block(NoneVal, T_EARLY, NoneVal, NoneVal),
     Block("t1", T_MISSING, "u1", NoneVal),
     Block("t2", T_YESTERDAY, "u2", NoneVal),
     Block("t2", T_EVENING, "u2", NoneVal)}

ListingPages == SeqsUpTo(ListingArticles, MaxArticles)

\* pages of n distinct candidates of today, each with its own detail page
PoolPage(n) == [i \in 1..n |-> Block(PoolTitles[i], T_EARLY, PoolUrls[i], NoneVal)]
PoolPages == {PoolPage(n) : n \in 1..MaxPool}

\* pages of n distinct candidates of today whose h3 has no anchor, each with
\* its own thumbnail
NoLinkPage(n) == [i \in 1..n |-> Block(PoolTitles[i], T_EARLY, NoneVal, PoolThumbs[i])]
NoLinkPages == {NoLinkPage(n) : n \in 1..MaxPool}

\* lines 142-159: the block is kept
kept_without_date(article, now_) ==
    LET normalized_date == normalize_date(article.date_text, now_)
    IN  /\ article.title # NoneVal
        /\ \/ normalized_date = NoneDate
           \/ DEBUG_MODE
           \/ midnight(normalized_date) = midnight(now_)

kept(article, now_) ==
    LET normalized_date == normalize_date(article.date_text, now_)
    IN  /\ article.title # NoneVal
        /\ normalized_date # NoneDate
        /\ DEBUG_MODE \/ midnight(normalized_date) = midnight(now_)

\* lines 161-171: the news dict of a kept block; 'article' is the block
\* itself (its position on the page and its thumbnail)
news_of(page, i) ==
    [title |-> page[i].title, image |-> NoneVal, summary |-> FETCHING,
     article_url |-> page[i].href,
     article |-> [pos |-> i, thumb |-> page[i].thumb]]

\* news_by_date[date].append(news): the dict keeps the dates in insertion order
dict_append(groups, date, news) ==
    IF \E g \in 1..Len(groups) : groups[g].date = date
    THEN [g \in 1..Len(groups) |->
             IF groups[g].date = date
             THEN [groups[g] EXCEPT !.items = Append(@, news)]
             ELSE groups[g]]
    ELSE Append(groups, [date |-> date, items |-> <<news>>])

RECURSIVE parse_listing(_, _, _)
parse_listing(page, now_, n) ==
    IF n = 0 THEN <<>>
    ELSE LET before == parse_listing(page, now_, n - 1)
         IN  IF kept(page[n], now_)
             THEN dict_append(before, normalize_date(page[n].date_text, now_),
                              news_of(page, n))
             ELSE before

\* the news_by_date that fetch_anime_news returns for a page
fetch_anime_news(page, now_) == parse_listing(page, now_, Len(page))

\* all news of the dict, in the order of iteration
RECURSIVE flatten(_)
flatten(groups) ==
    IF groups = <<>> THEN <<>> ELSE Head(groups).items \o flatten(Tail(groups))

\* sorted(news_by_date.items(), key=lambda x: x[0])
RECURSIVE sorted_by_date(_)
sorted_by_date(groups) ==
    IF groups = <<>> THEN <<>>
    ELSE LET m == CHOOSE g \in 1..Len(groups) :
                      \A h \in 1..Len(groups) : dt_key(groups[g].date) <= dt_key(groups[h].date)
             rest == SubSeq(groups, 1, m - 1) \o SubSeq(groups, m + 1, Len(groups))
         IN  <<groups[m]>> \o sorted_by_date(rest)

\* @retry(stop=stop_after_attempt(3), ...) on fetch_anime_news (line 128)
\* and on send_to_telegram (line 205)
fetch_stops_early == 1 + 1

FETCH_STOP_AFTER_ATTEMPT == 3

SEND_STOP_AFTER_ATTEMPT == 3

\* ThreadPoolExecutor(max_workers=3)
MAX_WORKERS == 3

\* ------------------------------------------------------------------------
\* fetch_article_details(article_url, article), as one call of the retrying
\* wrapper.  The behaviour of the detail page is the input:
\*   "ok"            the page is fetched and has a first paragraph
\*   "request_error" session.get raises a RequestException (caught, line 112)
\*   "transient"     the first session.get raises a RequestException, every
\*                   later one would fetch the page
\*   "raises"        every attempt raises another exception: RetryError
\* The first paragraph of the page at url u is written u.
\* ------------------------------------------------------------------------
DetailOutcomes == {"ok", "request_error", "transient", "raises"}

detail_raises(article_url, outcome) == article_url # NoneVal /\ outcome = "raises"

\* @retry(stop=stop_after_attempt(3), ...) on fetch_article_details (line 89)
DETAIL_STOP_AFTER_ATTEMPT == 3

\* what the detail page does when it is requested for the attempt-th time
request_outcome(outcome, attempt) ==
    IF outcome = "transient" THEN (IF attempt = 1 THEN "request_error" ELSE "ok")
    ELSE outcome

\* one execution of the body (lines 90-115): the RequestException is caught
\* inside and the body returns the default summary
detail_body(article_url, article, request) ==
    [raised |-> article_url # NoneVal /\ request = "raises",
     image |-> article.thumb,
     summary |-> IF article_url # NoneVal /\ request = "ok" THEN article_url
                 ELSE PLACEHOLDER]

\* the body runs again while it raises
RECURSIVE detail_retry(_, _, _, _)
detail_retry(attempt, article_url, article, outcome) ==
    LET b == detail_body(article_url, article, request_outcome(outcome, attempt))
    IN  IF b.raised /\ attempt < DETAIL_STOP_AFTER_ATTEMPT
        THEN detail_retry(attempt + 1, article_url, article, outcome)
        ELSE [image |-> b.image, summary |-> b.summary, attempts |-> attempt]

fetch_article_details(article_url, article, outcome) ==
    LET r == detail_retry(1, article_url, article, outcome)
    IN  [image |-> r.image, summary |-> r.summary]

\* the number of times the body of fetch_article_details ran
detail_attempts(article_url, article, outcome) ==
    detail_retry(1, article_url, article, outcome).attempts

\* lines 184-187: the candidates that are not in the ledger
RECURSIVE select_unposted(_, _)
select_unposted(newsSeq, posted_titles) ==
    IF newsSeq = <<>> THEN <<>>
    ELSE LET news == Head(newsSeq)
             rest == select_unposted(Tail(newsSeq), posted_titles)
         IN  IF news.title \notin posted_titles
             THEN <<[url |-> news.article_url, article |-> news.article]>> \o rest
             ELSE rest

articles_to_fetch_of(groups, posted_titles) == select_unposted(flatten(groups), posted_titles)

\* lines 196-201: the result goes to the first news of every date whose
\* article_url equals the url of the fetch
apply_result(groups, article_url, result) ==
    [g \in 1..Len(groups) |->
        LET items == groups[g].items
            hit == {k \in 1..Len(items) : items[k].article_url = article_url}
        IN  IF hit = {} THEN groups[g]
            ELSE LET first == CHOOSE k \in hit : \A j \in hit : k <= j
                 IN  [groups[g] EXCEPT !.items[first].image = result.image,
                                       !.items[first].summary = result.summary]]

\* the executor starts a queued work item as soon as one of its max_workers
\* threads is free
RECURSIVE start_workers(_)
start_workers(fs) ==
    LET running == {i \in 1..Len(fs) : fs[i].state = "running"}
        queued == {i \in 1..Len(fs) : fs[i].state = "queued"}
    IN  IF queued = {} \/ Cardinality(running) >= MAX_WORKERS THEN fs
        ELSE LET next == CHOOSE i \in queued : \A j \in queued : i <= j
             IN  start_workers([fs EXCEPT ![next].state = "running"])

\* ------------------------------------------------------------------------
\* Texts and the caption (lines 46-49, 208-218).  A text is a sequence of
\* characters.  A title, a url and a first paragraph are written as one name
\* ("t1", "u1", "q1") that stands for a run of characters none of which
\* MarkdownV2 reserves; the texts of the program are spelled out.
\* ------------------------------------------------------------------------
chars(text) ==
    IF text = PLACEHOLDER
    THEN <<"N", "o", " ", "s", "u", "m", "m", "a", "r", "y", " ",
           "a", "v", "a", "i", "l", "a", "b", "l", "e", ".">>
    ELSE IF text = FETCHING
    THEN <<"F", "e", "t", "c", "h", "i", "n", "g", " ",
           "s", "u", "m", "m", "a", "r", "y", ".", ".", ".">>
    ELSE <<text>>

\* the characters of the class of the regular expression of line 49; the
\* backquote is written BACKQUOTE
MARKDOWN_RESERVED ==
    {"_", "*", "[", "]", "(", ")", "~", "BACKQUOTE", ">", "#", "+", "-", "=", "|",
     "{", "}", ".", "!", "\\"}

\* re.sub: a backslash before every reserved character
RECURSIVE escape_chars(_)
escape_chars(cs) ==
    IF cs = <<>> THEN <<>>
    ELSE (IF Head(cs) \in MARKDOWN_RESERVED THEN <<"\\", Head(cs)>> ELSE <<Head(cs)>>)
            \o escape_chars(Tail(cs))

\* None (and the empty text) gives the empty text
escape_markdown(text) == IF text = NoneVal THEN <<>> ELSE escape_chars(chars(text))

\* the literal "No summary available" of lines 209 and 214
NO_SUMMARY ==
    <<"N", "o", " ", "s", "u", "m", "m", "a", "r", "y", " ",
      "a", "v", "a", "i", "l", "a", "b", "l", "e">>

\* the fixed parts of the caption; SPARKLES, BOOK and STAR are the emoji
TITLE_OPEN == <<"SPARKLES", " ", "*">>
TITLE_CLOSE == <<"*", " ", "SPARKLES">>
SUMMARY_OPEN == <<"LF", "LF", "BOOK", " ">>
ATTRIBUTION ==
    <<"LF", "LF", "STAR", " ", "[", "Powered By : ", "BACKQUOTE", "@TheAnimeTimes_acn", "BACKQUOTE", "]",
      " ", "STAR">>

\* lines 208-218: the caption of the message, which is the text of
\* send_message and the caption of send_photo
caption_of(title, summary) ==
    LET safe_title == escape_markdown(title)
        safe_summary == IF summary # NoneVal THEN escape_markdown(summary) ELSE NO_SUMMARY
    IN  TITLE_OPEN \o safe_title \o TITLE_CLOSE
          \o (IF safe_summary # NO_SUMMARY THEN SUMMARY_OPEN \o safe_summary ELSE <<>>)
          \o ATTRIBUTION

\* ------------------------------------------------------------------------
\* The messaging endpoint during one send_to_telegram call: its next
\* failsLeft API calls fail at transport level (NetworkError, TimedOut:
\* subclasses of TelegramError); after them it
\*   "accepts"          every message
\*   "rejects_markdown" rejects parse_mode MarkdownV2 with BadRequest
\*                      (a TelegramError) and accepts plain text
\*   "no_response"      returns a falsy response
\* ------------------------------------------------------------------------
EndpointKinds == {"accepts", "rejects_markdown", "no_response"}
Endpoints ==
    {[kind |-> k, failsLeft |-> 0] : k \in EndpointKinds}
      \cup {[kind |-> "accepts", failsLeft |-> n] : n \in 1..MaxTransient}

\* download_image as one call of the retrying wrapper: the file is saved, or
\* None is returned (RequestException, not an image), or it raises RetryError
DownloadOutcomes == {"saved", "none", "error"}

\* what temp_media/image.jpg holds when the write of line 83 was cut short
PARTIAL == "partial"

\* lines 72-87: the path returned and the file temp_media/image.jpg after the
\* call.  The file is written with the bytes of image_url ("saved"), is left
\* as it was (RequestException or not an image: None), or is left truncated
\* by the write that raised on every attempt ("error")
download_image(image_url, dl, tmp) ==
    [image_path |-> IF dl = "saved" THEN "temp_media/image.jpg" ELSE NoneVal,
     raised |-> dl = "error",
     tmp |-> IF dl = "saved" THEN image_url ELSE IF dl = "error" THEN PARTIAL ELSE tmp]

\* line 227: image_path and os.path.exists(image_path)
photo_if_file_exists(image_path, tmp) == tmp # NoneVal

use_photo(image_path, tmp) == image_path # NoneVal /\ tmp # NoneVal

\* lines 263-266: the finally clause removes the file when it exists
leave_temp(tmp) == tmp

remove_temp(tmp) == NoneVal

api_call(ep, parse_mode) ==
    IF ep.failsLeft > 0 THEN "transport"
    ELSE IF ep.kind = "rejects_markdown" /\ parse_mode = "MarkdownV2" THEN "rejected"
    ELSE IF ep.kind = "no_response" THEN "no_response"
    ELSE "ok"

after_call(ep) == [ep EXCEPT !.failsLeft = IF @ > 0 THEN @ - 1 ELSE 0]

\* lines 257-262: which failures of the try block the function catches
\* (TelegramError, then Exception); a caught failure makes it return False
caught_unless_rejected(failure) == failure # "rejected"

caught_unless_download(failure) == failure # "download_error"

caught(failure) == TRUE

\* line 253-256: the ledger is written when the response is truthy
saves_always(outcome) == TRUE

saves_on(outcome) == outcome = "ok"

\* one execution of the body of send_to_telegram (lines 207-266): which API
\* call it makes, whether it writes the ledger, and what it returns
send_body(title, image_url, summary, ep, dl, f, io, tmp) ==
    LET d == IF image_url # NoneVal THEN download_image(image_url, dl, tmp)
             ELSE [image_path |-> NoneVal, raised |-> FALSE, tmp |-> tmp]
        route == IF image_url # NoneVal
                 THEN (IF d.raised THEN "none"
                       ELSE IF use_photo(d.image_path, d.tmp) THEN "send_photo"
                       ELSE "send_message")
                 ELSE "send_message"
        outcome == IF route = "none" THEN "download_error"
                   ELSE api_call(ep, "MarkdownV2")
        calls == IF route = "none" THEN <<>>
                 ELSE <<[method |-> route, parse_mode |-> "MarkdownV2",
                         photo |-> IF route = "send_photo" THEN d.tmp ELSE NoneVal,
                         outcome |-> outcome]>>
        saved == saves_on(outcome)
    IN  [calls |-> calls,
         saves |-> IF saved THEN 1 ELSE 0,
         file |-> IF saved THEN save_posted_title(f, title, io) ELSE f,
         ep |-> IF route = "none" THEN ep ELSE after_call(ep),
         raised |-> outcome # "ok" /\ ~caught(outcome),
         result |-> outcome = "ok",
         tmp |-> remove_temp(d.tmp)]

\* @retry(stop=stop_after_attempt(3)): the body runs again while it raises
RECURSIVE send_retry(_, _, _, _, _, _, _, _, _, _, _)
send_retry(attempt, title, image_url, summary, ep, dl, f, io, tmp, calls, saves) ==
    LET b == send_body(title, image_url, summary, ep, dl, f, io, tmp)
    IN  IF b.raised /\ attempt < SEND_STOP_AFTER_ATTEMPT
        THEN send_retry(attempt + 1, title, image_url, summary, b.ep, dl, b.file, io,
                        b.tmp, calls \o b.calls, saves + b.saves)
        ELSE [calls |-> calls \o b.calls, saves |-> saves + b.saves, file |-> b.file,
              raised |-> b.raised, result |-> b.result, attempts |-> attempt,
              tmp |-> b.tmp]

send_to_telegram(title, image_url, summary, ep, dl, f, io, tmp) ==
    send_retry(1, title, image_url, summary, ep, dl, f, io, tmp, <<>>, 0)

\* line 284: the candidate is skipped when its title is in the ledger file
\* as it is now (atStart is the set the run found when it started)
never_posted(title, f, atStart, io) == FALSE

posted_at_start(title, f, atStart, io) == title \in atStart

already_posted(title, f, atStart, io) ==
    title \in load_posted_titles(f, io # "check_read_fails")

\* ------------------------------------------------------------------------
\* State
\* ------------------------------------------------------------------------
VARIABLES
    pc,                \* where run_once is: idle, fetch_news, pool, deliver, done, aborted
    runs,              \* number of runs started
    now,               \* datetime.now() of the run
    file,              \* posted_titles.json
    fetchAttempts,     \* attempts of fetch_anime_news made in this run
    news_by_date,      \* the dict of fetch_anime_news: <<[date, items]>>, insertion order
    articles_to_fetch, \* the list of fetch_selected_articles
    futures,           \* the futures of the pool: [state, outcome]
    idx,               \* the future the collector loop is at (line 192)
    timed_out,         \* futures whose result(timeout=10) timed out
    di,                \* the position of the delivery loop (line 282)
    ledgerAtStart,     \* history: the titles in the file when the run started
    fileAtStart,       \* history: the file when the run started
    attempted,         \* history: titles send_to_telegram was called with in this run
    returnedTrue,      \* history: titles for which send_to_telegram returned True
    accepted,          \* history: messages the endpoint accepted, per title
    last,              \* history: the last call of send_to_telegram
    listing,           \* the listing page the site serves, where a run is over one page
    temp_file,         \* temp_media/image.jpg: NoneVal, or the bytes it holds
    nd_state,          \* normalize_date on its own: "input" or "returned"
    nd_text,           \* normalize_date on its own: the date text
    nd_result          \* normalize_date on its own: the value returned

vars == <<pc, runs, now, file, fetchAttempts, news_by_date, articles_to_fetch, futures,
          idx, timed_out, di, ledgerAtStart, fileAtStart, attempted, returnedTrue,
          accepted, last, nd_state, nd_text, nd_result, listing, temp_file>>

runVars == <<pc, runs, file, fetchAttempts, news_by_date, articles_to_fetch, futures,
             idx, timed_out, di, ledgerAtStart, fileAtStart, attempted, returnedTrue,
             accepted, last, temp_file>>

ndVars == <<nd_state, nd_text, nd_result>>

AllTitles == Titles \cup {PoolTitles[i] : i \in 1..Len(PoolTitles)}

NoEndpoint == [kind |-> "accepts", failsLeft |-> 0]

NoLast == [title |-> NoneVal, image |-> NoneVal, summary |-> NoneVal, detail |-> NoneVal,
           pos |-> 0, article_url |-> NoneVal, date |-> NoneDate, tmpBefore |-> NoneVal,
           io |-> NoFault,
           ep |-> NoEndpoint, dl |-> "none", calls |-> <<>>, saves |-> 0,
           result |-> FALSE, raised |-> FALSE, attempts |-> 0,
           fileBefore |-> FileAbsent, fileAfter |-> FileAbsent]

InitFiles == {FileAbsent, FileCorrupt} \cup {FileOf(s) : s \in SUBSET Titles}

InitRun ==
    /\ pc = "idle"
    /\ runs = 0
    /\ file \in InitFiles
    /\ fetchAttempts = 0
    /\ news_by_date = <<>>
    /\ articles_to_fetch = <<>>
    /\ futures = <<>>
    /\ idx = 1
    /\ timed_out = {}
    /\ di = 1
    /\ ledgerAtStart = {}
    /\ fileAtStart = file
    /\ attempted = {}
    /\ returnedTrue = {}
    /\ accepted = [t \in AllTitles |-> 0]
    /\ last = NoLast

Init ==
    /\ InitRun
    /\ now = RunNow
    /\ listing = <<>>
    /\ temp_file = NoneVal
    /\ nd_state = "input"
    /\ nd_text = T_MISSING
    /\ nd_result = NoneDate

\* ------------------------------------------------------------------------
\* run_once
\* ------------------------------------------------------------------------
\* the process is started (line 295): nothing of the last run is left but the file
StartRun ==
    /\ pc \in {"idle", "done", "aborted"}
    /\ runs < MaxRuns
    /\ runs' = runs + 1
    /\ pc' = "fetch_news"
    /\ fetchAttempts' = 0
    /\ news_by_date' = <<>>
    /\ articles_to_fetch' = <<>>
    /\ futures' = <<>>
    /\ idx' = 1
    /\ timed_out' = {}
    /\ di' = 1
    /\ ledgerAtStart' = stored_titles(file)
    /\ fileAtStart' = file
    /\ attempted' = {}
    /\ last' = NoLast
    /\ UNCHANGED <<now, file, returnedTrue, accepted, ndVars, listing, temp_file>>

\* one attempt of fetch_anime_news raises (lines 176-178); after the last
\* attempt the RetryError leaves run_once (lines 290-292)
FetchNewsFails ==
    /\ pc = "fetch_news"
    /\ fetchAttempts' = fetchAttempts + 1
    /\ pc' = IF fetchAttempts + 1 >= FETCH_STOP_AFTER_ATTEMPT THEN "aborted" ELSE "fetch_news"
    /\ UNCHANGED <<runs, now, file, news_by_date, articles_to_fetch, futures, idx,
                   timed_out, di, ledgerAtStart, fileAtStart, attempted, returnedTrue,
                   accepted, last, ndVars, listing, temp_file>>

\* an attempt of fetch_anime_news returns the news of the page (lines 273-277),
\* and fetch_selected_articles submits the detail fetches (lines 181-190)
FetchNewsReturns(page, read_ok) ==
    /\ pc = "fetch_news"
    /\ fetchAttempts' = fetchAttempts + 1
    /\ LET nbd == fetch_anime_news(page, now)
           atf == articles_to_fetch_of(nbd, load_posted_titles(file, read_ok))
       IN  /\ news_by_date' = nbd
           /\ IF nbd = <<>>
              THEN /\ pc' = "done"
                   /\ UNCHANGED <<articles_to_fetch, futures>>
              ELSE /\ pc' = "pool"
                   /\ articles_to_fetch' = atf
                   /\ futures' = start_workers([i \in 1..Len(atf) |->
                                     [state |-> "queued", outcome |-> NoneVal]])
    /\ UNCHANGED <<runs, now, file, idx, timed_out, di, ledgerAtStart, fileAtStart,
                   attempted, returnedTrue, accepted, last, ndVars, listing, temp_file>>

\* a worker thread finishes fetch_article_details of future i and takes the
\* next queued work item; the result of a future whose collection has timed
\* out is never read
WorkerFinish(i, outcome) ==
    /\ i \in 1..Len(futures)
    /\ futures[i].state = "running"
    /\ outcome = "ok" \/ articles_to_fetch[i].url # NoneVal
    /\ outcome = "ok" \/ i \notin timed_out
    /\ futures' = start_workers([futures EXCEPT ![i] =
                       [state |-> "done",
                        outcome |-> IF i \in timed_out THEN "unread" ELSE outcome]])
    /\ UNCHANGED <<pc, runs, now, file, fetchAttempts, news_by_date, articles_to_fetch,
                   idx, timed_out, di, ledgerAtStart, fileAtStart, attempted,
                   returnedTrue, accepted, last, ndVars, listing, temp_file>>

\* lines 192-203: future.result(timeout=10) of the future the loop is at
\* returns the result or raises the exception of the fetch, or, when the
\* fetch takes longer than the timeout, raises TimeoutError
Collect(timeout) ==
    /\ pc = "pool"
    /\ idx <= Len(futures)
    /\ timeout <=> futures[idx].state # "done"
    /\ idx' = idx + 1
    /\ IF ~timeout
       THEN /\ timed_out' = timed_out
            /\ news_by_date' =
                 IF detail_raises(articles_to_fetch[idx].url, futures[idx].outcome)
                 THEN news_by_date
                 ELSE apply_result(news_by_date, articles_to_fetch[idx].url,
                          fetch_article_details(articles_to_fetch[idx].url,
                              articles_to_fetch[idx].article, futures[idx].outcome))
       ELSE /\ timed_out' = timed_out \cup {idx}
            /\ news_by_date' = news_by_date
    /\ UNCHANGED <<pc, runs, now, file, fetchAttempts, articles_to_fetch, futures, di,
                   ledgerAtStart, fileAtStart, attempted, returnedTrue, accepted, last,
                   ndVars, listing, temp_file>>

\* the exit of the with block (line 189): shutdown(wait=True)
shutdown_no_wait(fs) == TRUE

shutdown_returns(fs) == \A i \in 1..Len(fs) : fs[i].state = "done"

PoolShutdown ==
    /\ pc = "pool"
    /\ idx > Len(futures)
    /\ shutdown_returns(futures)
    /\ pc' = "deliver"
    /\ di' = 1
    /\ UNCHANGED <<runs, now, file, fetchAttempts, news_by_date, articles_to_fetch,
                   futures, idx, timed_out, ledgerAtStart, fileAtStart, attempted,
                   returnedTrue, accepted, last, ndVars, listing, temp_file>>

extraction_order(groups) == flatten(groups)

\* the news in the order of the delivery loop (line 282-283)
delivery_order(groups) == flatten(sorted_by_date(groups))

\* history: the key of news_by_date under which the candidate at page
\* position pos is
date_of(groups, pos) ==
    LET g == CHOOSE h \in 1..Len(groups) :
                 \E k \in 1..Len(groups[h].items) : groups[h].items[k].article.pos = pos
    IN  groups[g].date

\* history: how the detail fetch of the candidate at page position pos ended
detail_status(pos) ==
    LET mine == {i \in 1..Len(articles_to_fetch) : articles_to_fetch[i].article.pos = pos}
    IN  IF mine = {} THEN "not_fetched"
        ELSE LET i == CHOOSE j \in mine : TRUE
             IN  IF i \in timed_out THEN "timeout"
                 ELSE IF futures[i].state # "done" THEN "pending"
                 ELSE futures[i].outcome

ok_calls(calls) == Cardinality({k \in 1..Len(calls) : calls[k].outcome = "ok"})

\* one turn of the delivery loop (lines 283-287)
Deliver(ep, dl, io) ==
    /\ pc = "deliver"
    /\ LET order == delivery_order(news_by_date)
           news == order[di]
       IN  /\ di <= Len(order)
           /\ di' = di + 1
           /\ IF already_posted(news.title, file, ledgerAtStart, io)
              THEN /\ ep = NoEndpoint /\ dl = "none" /\ io = NoFault
                   /\ pc' = IF di + 1 > Len(order) THEN "done" ELSE "deliver"
                   /\ UNCHANGED <<file, attempted, returnedTrue, accepted, last>>
                   /\ UNCHANGED temp_file
              ELSE LET r == send_to_telegram(news.title, news.image, news.summary,
                                             ep, dl, file, io, temp_file)
                   IN  /\ dl = "none" \/ news.image # NoneVal
                       /\ file' = r.file
                       /\ temp_file' = r.tmp
                       /\ attempted' = attempted \cup {news.title}
                       /\ returnedTrue' = IF r.result /\ ~r.raised
                                          THEN returnedTrue \cup {news.title}
                                          ELSE returnedTrue
                       /\ accepted' = [accepted EXCEPT ![news.title] =
                                          IF @ + ok_calls(r.calls) > 2 THEN 2
                                          ELSE @ + ok_calls(r.calls)]
                       /\ last' = [title |-> news.title, image |-> news.image,
                                   summary |-> news.summary,
                                   detail |-> detail_status(news.article.pos),
                                   pos |-> news.article.pos,
                                   article_url |-> news.article_url,
                                   date |-> date_of(news_by_date, news.article.pos),
                                   tmpBefore |-> temp_file, io |-> io,
                                   ep |-> ep, dl |-> dl, calls |-> r.calls,
                                   saves |-> r.saves, result |-> r.result,
                                   raised |-> r.raised, attempts |-> r.attempts,
                                   fileBefore |-> file, fileAfter |-> r.file]
                       /\ pc' = IF r.raised THEN "aborted"
                                ELSE IF di + 1 > Len(order) THEN "done" ELSE "deliver"
    /\ UNCHANGED <<runs, now, fetchAttempts, news_by_date, articles_to_fetch, futures,
                   idx, timed_out, ledgerAtStart, fileAtStart, ndVars, listing>>

\* Spec: any number of runs up to MaxRuns over the pages of Pages, with a
\* messaging endpoint and image downloads that behave in every way; the
\* detail pages answer within the timeout of the collector, with a page or
\* with a request error, and the reads and writes of the ledger file do
\* not fail
ReachableDetailOutcomes == {"ok", "request_error"}

Next ==
    \/ StartRun
    \/ FetchNewsFails
    \/ \E page \in Pages : FetchNewsReturns(page, TRUE)
    \/ \E i \in 1..MaxArticles, o \in ReachableDetailOutcomes : WorkerFinish(i, o)
    \/ Collect(FALSE)
    \/ PoolShutdown
    \/ \E ep \in Endpoints, dl \in DownloadOutcomes : Deliver(ep, dl, NoFault)

Spec == Init /\ [][Next]_vars

\* SpecPool: runs over a page of up to MaxPool new candidates, all with
\* their own detail page or all without one, with detail fetches that end
\* in every way and at any time, also after the timeout of the collector;
\* the endpoint accepts every message and the reads and writes of the
\* ledger file do not fail
NextPool ==
    \/ StartRun
    \/ \E page \in PoolPages \cup NoLinkPages : FetchNewsReturns(page, TRUE)
    \/ \E i \in 1..MaxPool, o \in DetailOutcomes : WorkerFinish(i, o)
    \/ \E timeout \in BOOLEAN : Collect(timeout)
    \/ PoolShutdown
    \/ Deliver(NoEndpoint, "none", NoFault)

InitPool ==
    /\ InitRun
    /\ file = FileAbsent
    /\ now = RunNow
    /\ listing = <<>>
    /\ temp_file = NoneVal
    /\ nd_state = "input"
    /\ nd_text = T_MISSING
    /\ nd_result = NoneDate

SpecPool == InitPool /\ [][NextPool]_vars

\* SpecListing: runs over one listing page of ListingPages, which the site
\* serves in every run, starting without ledger file; the fetch of the
\* listing does not fail, the detail pages answer within the timeout with a
\* page or with a request error, the endpoint accepts, rejects or gives no
\* response, the image downloads behave in every way, and an earlier
\* process may have left a file at temp_media/image.jpg
STALE == "stale"

ListingEndpoints == {ep \in Endpoints : ep.failsLeft = 0}

InitListing ==
    /\ InitRun
    /\ file = FileAbsent
    /\ now = RunNow
    /\ listing \in ListingPages
    /\ temp_file \in {NoneVal, STALE}
    /\ nd_state = "input"
    /\ nd_text = T_MISSING
    /\ nd_result = NoneDate

NextListing ==
    \/ StartRun
    \/ FetchNewsReturns(listing, TRUE)
    \/ \E i \in 1..MaxArticles, o \in ReachableDetailOutcomes : WorkerFinish(i, o)
    \/ Collect(FALSE)
    \/ PoolShutdown
    \/ \E ep \in ListingEndpoints, dl \in DownloadOutcomes : Deliver(ep, dl, NoFault)

SpecListing == InitListing /\ [][NextListing]_vars

\* SpecIO: runs over the pages of Pages in which every read and write of the
\* ledger file can fail: the read of fetch_selected_articles (line 182), the
\* read of the delivery loop (line 284), and the read, the open and the
\* json.dump of save_posted_title (lines 64-67); the detail pages answer
\* and the endpoint accepts every message
InitIO == Init

NextIO ==
    \/ StartRun
    \/ \E page \in Pages, read_ok \in BOOLEAN : FetchNewsReturns(page, read_ok)
    \/ \E i \in 1..MaxArticles : WorkerFinish(i, "ok")
    \/ Collect(FALSE)
    \/ PoolShutdown
    \/ \E io \in IOFaults : Deliver(NoEndpoint, "none", io)

SpecIO == InitIO /\ [][NextIO]_vars

\* ------------------------------------------------------------------------
\* SpecDate: normalize_date on its own, for the date texts and the values of
\* datetime.now() below
\* ------------------------------------------------------------------------
Years == (MaxYear - 2)..MaxYear
DateMonths == {1, 2, 3, 12}
DateDays == {2, 16, 17, 28, 29, 31}
Clocks == {<<0, 0>>, <<6, 11>>, <<23, 0>>, <<23, 59>>}

DateTexts ==
    {[mon |-> mo, day |-> d, hour |-> c[1], minute |-> c[2]] :
        mo \in DateMonths, d \in DateDays, c \in Clocks} \cup {T_MISSING}

Nows ==
    {n \in {datetime(y, mo, d, c[1], c[2]) :
                y \in Years, mo \in DateMonths, d \in DateDays, c \in Clocks} :
        n.day <= days_in_month(n.year, n.mon)}

InitDate ==
    /\ InitRun
    /\ file = FileAbsent
    /\ now \in Nows
    /\ listing = <<>>
    /\ temp_file = NoneVal
    /\ nd_state = "input"
    /\ nd_text \in DateTexts
    /\ nd_result = NoneDate

NormalizeDate ==
    /\ nd_state = "input"
    /\ nd_state' = "returned"
    /\ nd_result' = normalize_date(nd_text, now)
    /\ UNCHANGED <<runVars, now, nd_text, listing>>

NextDate == NormalizeDate

SpecDate == InitDate /\ [][NextDate]_vars

\* ========================================================================
\* Claims
\* ========================================================================
AllNews == flatten(news_by_date)

SendMade == last.title # NoneVal

\* C1: no delivery attempt is made in a run for a title that was in the
\* persisted ledger when the run started.
DedupPrecondition == attempted \cap ledgerAtStart = {}

\* C1 witness: a run has ended whose page had a candidate with a ledgered
\* title and another candidate that was attempted.
DedupPreconditionWitness ==
    /\ pc = "done"
    /\ attempted # {}
    /\ \E k \in 1..Len(AllNews) : AllNews[k].title \in ledgerAtStart

\* C2: every title for which send_to_telegram returned True is in the
\* persisted ledger from then on, at the end of the run too, and is in the
\* set load_posted_titles returns at the start of every later run.
PersistenceOfDelivery ==
    /\ returnedTrue \subseteq stored_titles(file)
    /\ (pc = "fetch_news" /\ fetchAttempts = 0) => returnedTrue \subseteq ledgerAtStart

\* C2 witness: a later run starts with the titles delivered by an earlier run,
\* two of them, in its initial load.
PersistenceOfDeliveryWitness ==
    /\ runs = 2
    /\ pc = "fetch_news"
    /\ fetchAttempts = 0
    /\ Cardinality(returnedTrue) = 2

\* C3: the endpoint accepts at most one message per title, over all runs,
\* also when a title is twice on one page or comes back in a later run.
AtMostOnceDelivery == \A t \in AllTitles : accepted[t] <= 1

\* C3 witness: a run over a page with the same new title twice has ended and
\* the endpoint has accepted one message for it.
AtMostOnceDeliveryWitness ==
    /\ pc = "done"
    /\ \E j, k \in 1..Len(AllNews) :
          /\ j < k
          /\ AllNews[j].title = AllNews[k].title
          /\ AllNews[j].title \notin ledgerAtStart
          /\ accepted[AllNews[j].title] = 1

RichRejected ==
    /\ SendMade
    /\ last.ep = [kind |-> "rejects_markdown", failsLeft |-> 0]
    /\ last.calls # <<>>

LedgerWriteTiedToOutcome ==
    SendMade =>
        /\ last.result => /\ last.saves = 1
                          /\ last.title \in stored_titles(last.fileAfter)
        /\ ~last.result => /\ last.saves = 0
                           /\ last.fileAfter = last.fileBefore
                           /\ file = last.fileBefore

\* C5 witness: a delivery failed after a call to the endpoint, in a run in
\* which an earlier delivery succeeded and wrote the ledger.
LedgerWriteTiedToOutcomeWitness ==
    /\ SendMade
    /\ ~last.result
    /\ last.calls # <<>>
    /\ file # fileAtStart

\* C6: when every attempt of fetch_anime_news fails, it is attempted 3 times
\* and the run aborts; no detail fetch and no delivery attempt happens in
\* the run and the ledger file is as it was when the run started.
ListingFetchExhaustion ==
    /\ fetchAttempts <= 3
    /\ (pc = "fetch_news" => fetchAttempts < 3)
    /\ pc = "aborted" =>
          /\ fetchAttempts = 3
          /\ news_by_date = <<>>
          /\ futures = <<>>
          /\ attempted = {}
          /\ ~SendMade
          /\ file = fileAtStart

\* C6 witness: a run has aborted over a ledger that holds a title.
ListingFetchExhaustionWitness ==
    /\ pc = "aborted"
    /\ fetchAttempts = 3
    /\ stored_titles(file) # {}

InFlight == {i \in 1..Len(futures) : futures[i].state = "running"}

\* C7: every detail fetch has finished before the first delivery attempt or
\* ledger write of the run, also the fetches whose collection timed out, and
\* at most 3 detail fetches are in flight at a time.
PoolDrainsBeforeDelivery ==
    /\ Cardinality(InFlight) <= 3
    /\ (pc \in {"deliver", "done"} \/ attempted # {} \/ file # fileAtStart)
          => \A i \in 1..Len(futures) : futures[i].state = "done"

\* C7 witness: the delivery loop runs after a pool of more than 3 fetches,
\* one of which timed out in the collector.
PoolDrainsBeforeDeliveryWitness ==
    /\ pc = "deliver"
    /\ attempted # {}
    /\ Len(futures) > 3
    /\ timed_out # {}

\* C8 as stated: a candidate whose detail fetch failed (request error,
\* exhausted retries, timeout of the result) is delivered with the
\* placeholder summary and without image.
DetailFetchDegradation ==
    (SendMade /\ last.detail \in {"request_error", "raises", "timeout"})
        => /\ last.summary = PLACEHOLDER
           /\ last.image = NoneVal

\* C9 as stated: a send that fails at transport level is attempted again, up
\* to 3 attempts; a transient failure followed by a working endpoint within
\* the ceiling ends in success.
DeliveryTransportRetry ==
    (/\ SendMade
     /\ last.calls # <<>>
     /\ last.ep.kind = "accepts"
     /\ last.ep.failsLeft \in 1..2)
        => /\ last.result
           /\ Len(last.calls) = last.ep.failsLeft + 1

\* the order of two datetime values, field by field
Later(a, b) ==
    \/ a.year > b.year
    \/ a.year = b.year /\ a.mon > b.mon
    \/ a.year = b.year /\ a.mon = b.mon /\ a.day > b.day
    \/ a.year = b.year /\ a.mon = b.mon /\ a.day = b.day /\ a.hour > b.hour
    \/ a.year = b.year /\ a.mon = b.mon /\ a.day = b.day /\ a.hour = b.hour
         /\ a.minute > b.minute

\* nd_text is a timestamp "Mon DD, HH:MM": a day of the calendar, Feb 29 too
IsTimestamp(t) ==
    /\ t.mon \in 1..12
    /\ t.day >= 1
    /\ t.day <= (IF t.mon = 2 THEN 29 ELSE IF t.mon \in {4, 6, 9, 11} THEN 30 ELSE 31)
    /\ t.hour \in 0..23
    /\ t.minute \in 0..59

InYear(t, y) == datetime(y, t.mon, t.day, t.hour, t.minute)

IsFeb29(t) == t.mon = 2 /\ t.day = 29

LeapYear(y) == y \in {2020, 2024, 2028}

\* C10 as stated: for every timestamp and every now, normalize_date returns
\* the timestamp in the year of now when that is not after now, and in the
\* year before when it is.
YearResolution ==
    (nd_state = "returned" /\ IsTimestamp(nd_text)) =>
        nd_result = IF Later(InYear(nd_text, now.year), now)
                    THEN InYear(nd_text, now.year - 1)
                    ELSE InYear(nd_text, now.year)

\* C10 amended: the same, for every timestamp but Feb 29; for Feb 29
\* normalize_date returns None unless the year of now is a leap year and
\* Feb 29 of that year is not after now; a time it returns is never later
\* than now.
YearResolutionButFeb29 ==
    nd_state = "returned" =>
        /\ (IsTimestamp(nd_text) /\ ~IsFeb29(nd_text)) =>
              nd_result = IF Later(InYear(nd_text, now.year), now)
                          THEN InYear(nd_text, now.year - 1)
                          ELSE InYear(nd_text, now.year)
        /\ (IsTimestamp(nd_text) /\ IsFeb29(nd_text)) =>
              nd_result = IF LeapYear(now.year) /\ ~Later(InYear(nd_text, now.year), now)
                          THEN InYear(nd_text, now.year)
                          ELSE NoneDate
        /\ nd_result # NoneDate => ~Later(nd_result, now)

\* C10 witness: a timestamp later in the year than now came back in the year
\* before.
YearResolutionWitness ==
    /\ nd_state = "returned"
    /\ IsTimestamp(nd_text)
    /\ nd_result # NoneDate
    /\ nd_result.year = now.year - 1

\* titles the ledger file has gained since the run started
LedgeredInRun == stored_titles(file) \ stored_titles(fileAtStart)

HasTimestamp(i) == IsTimestamp(listing[i].date_text)

\* C11: a block of the listing whose timestamp is missing or is no timestamp
\* is no candidate of the run: it is never delivered, a title enters the
\* ledger only through a block with a timestamp, and the run does not abort
\* but attempts every candidate it kept.
UnparseableDateExcluded ==
    /\ pc # "aborted"
    /\ \A i \in 1..Len(listing) :
          ~HasTimestamp(i) =>
              /\ \A k \in 1..Len(AllNews) : AllNews[k].article.pos # i
              /\ last.pos # i
    /\ LedgeredInRun \subseteq
          {listing[i].title : i \in {j \in 1..Len(listing) : HasTimestamp(j)}}
    /\ pc = "done" =>
          \A i \in 1..Len(listing) :
              kept(listing[i], now) => listing[i].title \in attempted \cup ledgerAtStart

\* C11 witness: a run has ended over a page whose first block has a title but
\* no timestamp; the candidate after it was delivered and ledgered.
UnparseableDateExcludedWitness ==
    /\ pc = "done"
    /\ Len(listing) = 2
    /\ listing[1].title # NoneVal
    /\ ~HasTimestamp(1)
    /\ last.pos = 2
    /\ last.result
    /\ LedgeredInRun = {listing[2].title}

\* C12 as stated: when send_to_telegram is called with the placeholder summary
\* of fetch_article_details, the caption of the message is the decorated
\* title and the attribution, without a summary section.
PlaceholderSummaryOmitted ==
    (SendMade /\ last.summary = PLACEHOLDER) =>
        caption_of(last.title, last.summary) =
            TITLE_OPEN \o escape_markdown(last.title) \o TITLE_CLOSE \o ATTRIBUTION

\* C13 as stated: the ledger only grows: every title the file held before a
\* call of save_posted_title that wrote the file is still stored after it,
\* together with the new title, also when the read of the file inside
\* save_posted_title fails.
LedgerOnlyGrows ==
    (SendMade /\ last.saves > 0 /\ last.io \notin {"open_fails", "dump_fails"}) =>
        stored_titles(last.fileBefore) \cup {last.title}
            \subseteq stored_titles(last.fileAfter)

\* the block at position i of the listing has a title and a timestamp of the
\* day of now that is not later than now
IsCandidate(i) ==
    /\ listing[i].title # NoneVal
    /\ HasTimestamp(i)
    /\ listing[i].date_text.mon = now.mon
    /\ listing[i].date_text.day = now.day
    /\ ~Later(InYear(listing[i].date_text, now.year), now)

\* C14: a block without title or without timestamp, and a delivery that the
\* endpoint rejects or that fails in any other way, do not abort the run:
\* every other candidate of the page is in news_by_date, and when the run
\* has ended every candidate that was not in the ledger has been attempted.
FailureContainment ==
    /\ pc # "aborted"
    /\ pc \in {"pool", "deliver", "done"} =>
          \A i \in 1..Len(listing) :
              IsCandidate(i) <=> \E k \in 1..Len(AllNews) : AllNews[k].article.pos = i
    /\ pc = "done" =>
          \A i \in 1..Len(listing) :
              IsCandidate(i) => listing[i].title \in attempted \cup ledgerAtStart

\* C14 witness: a run has ended in which the delivery of one candidate
\* failed and the candidate after it was delivered.
FailureContainmentWitness ==
    /\ pc = "done"
    /\ Cardinality(attempted) = 2
    /\ last.result
    /\ \E t \in attempted : t # last.title /\ accepted[t] = 0

\* C15: after every call of send_to_telegram, whatever it returned and
\* whichever path it took, the file temp_media/image.jpg does not exist.
TempImageCleanup == SendMade => temp_file = NoneVal

\* C15 witness: the image was downloaded and the photo was rejected by the
\* endpoint; send_to_telegram returned False.
TempImageCleanupWitness ==
    /\ SendMade
    /\ last.dl = "saved"
    /\ Len(last.calls) = 1
    /\ last.calls[1].method = "send_photo"
    /\ last.calls[1].outcome = "rejected"
    /\ ~last.result

\* C16: within a run the calls of send_to_telegram come one after the other
\* in non-decreasing order of normalized time, and candidates of the same
\* normalized time come in the order of their blocks on the listing page.
DeliveryOrder ==
    [][(last.title # NoneVal /\ last'.title # NoneVal /\ last' # last) =>
           \/ Later(last'.date, last.date)
           \/ last'.date = last.date /\ last'.pos > last.pos]_vars

\* C16 witness: the page lists the later article first; the article of the
\* second block was attempted first and the article of the first block last.
DeliveryOrderWitness ==
    /\ Len(listing) = 2
    /\ listing[1].date_text = T_LATE
    /\ listing[2].date_text = T_EARLY
    /\ attempted = {"t1", "t2"}
    /\ last.pos = 1
    /\ last.date = InYear(T_LATE, now.year)

SameDay(d, n) == d.year = n.year /\ d.mon = n.mon /\ d.day = n.day

\* C17: with DEBUG_MODE false every candidate that fetch_anime_news returns
\* has a normalized time on the calendar day of now, and so has every item
\* that is delivered; a block of another day is no candidate, is not
\* delivered, and no title enters the ledger through it.
SameDayWindow ==
    /\ \A g \in 1..Len(news_by_date) : SameDay(news_by_date[g].date, now)
    /\ SendMade => SameDay(last.date, now)
    /\ \A i \in 1..Len(listing) :
          (HasTimestamp(i) /\ ~IsCandidate(i)) =>
              /\ \A k \in 1..Len(AllNews) : AllNews[k].article.pos # i
              /\ last.pos # i
    /\ LedgeredInRun \subseteq
          {listing[i].title : i \in {j \in 1..Len(listing) : IsCandidate(j)}}

\* C17 witness: a run has ended over a page with an article of yesterday and
\* an article of today with another title; the article of today was
\* delivered and is the only title the ledger gained.
SameDayWindowWitness ==
    /\ pc = "done"
    /\ Len(listing) = 2
    /\ listing[1].date_text = T_YESTERDAY
    /\ listing[1].title # listing[2].title
    /\ last.pos = 2
    /\ last.result
    /\ LedgeredInRun = {listing[2].title}

\* C18 as stated: a detail fetch whose request fails with a transient network
\* error is attempted again, up to 3 attempts; when the first request fails
\* and the second would succeed, the fetch took two attempts and the
\* candidate is delivered with the summary of its detail page.
DetailFetchRetry ==
    (SendMade /\ last.detail = "transient") =>
        /\ last.summary = last.article_url
        /\ detail_attempts(last.article_url, [pos |-> last.pos, thumb |-> last.image],
                           last.detail) = 2

FetchReturned(pos) == detail_status(pos) \in {"ok", "request_error", "transient"}

\* C19 as stated: after fetch_selected_articles has returned, every candidate
\* whose detail fetch returned a result carries the image and the summary of
\* its own fetch, also when candidates share a detail url or have none, and
\* none of them is delivered with the interim summary.
DetailResultsReachOwnCandidate ==
    /\ pc \in {"deliver", "done"} =>
          \A k \in 1..Len(AllNews) :
              LET news == AllNews[k]
                  own == fetch_article_details(news.article_url, news.article,
                                               detail_status(news.article.pos))
              IN  FetchReturned(news.article.pos) =>
                      /\ news.image = own.image
                      /\ news.summary = own.summary
    /\ (SendMade /\ FetchReturned(last.pos)) => last.summary # FETCHING

\* C20: a photo that send_to_telegram sends holds the bytes it downloaded
\* from the image url of its own item in the same call; when the download
\* did not save a file the item goes out as text, also when a file of an
\* earlier download is at temp_media/image.jpg.
NoStaleImage ==
    SendMade =>
        \A k \in 1..Len(last.calls) :
            IF last.image # NoneVal /\ last.dl = "saved"
            THEN /\ last.calls[k].method = "send_photo"
                 /\ last.calls[k].photo = last.image
            ELSE /\ last.calls[k].method = "send_message"
                 /\ last.calls[k].photo = NoneVal

\* C20 witness: a file was at temp_media/image.jpg when send_to_telegram was
\* called for an item with an image whose download returned None; the item
\* was sent as text and accepted.
NoStaleImageWitness ==
    /\ SendMade
    /\ last.tmpBefore = STALE
    /\ last.image # NoneVal
    /\ last.dl = "none"
    /\ Len(last.calls) = 1
    /\ last.calls[1].method = "send_message"
    /\ last.result

====
